---- MODULE Spec2Model ----
(***************************************************************************)
(* The commands of reshotka (src/parser.rs): the estimators                 *)
(* compute-effective-mass, bootstrap-fits, bootstrap-fits-with-wf,         *)
(* bootstrap-fits-ratio and calculate-w0 with their parallel trials, and   *)
(* fit-effective-mass, histogram, bootstrap-error, generate-completions.   *)
(*                                                                         *)
(* The numerical modules (bootstrap, io, spectroscopy, statistics,         *)
(* wilsonflow) are not part of the sources at hand; their operators are    *)
(* modelled from the specification.  Measured data is abstracted: a        *)
(* subsample statistic is represented by the draw it was computed from and *)
(* its length, a solver's convergence is a nondeterministic outcome, and   *)
(* real numbers are exact fractions <<numerator, denominator>> with <<0,0>>*)
(* standing for NaN.                                                       *)
(***************************************************************************)
EXTENDS Integers, Sequences, FiniteSets, Bags, TLC

\* ------------------------------------------------------------- bounds
MaxBoot == 2

\* Ensemble sizes found in a file, thermalisation cut-offs, block widths,
\* the flow scales a crossing may give, periods, folded lengths, window ends.
ConfCounts == {1, 2}
Thermalisations == {0, 1}
BinWidths == {1, 2}
W0Values == {2}
GlobalTs == {4, 6}
EachLens == {3, 4}
Taus == 0..2
FlowGrid == <<1, 2, 3>>
\* Values and errors found in a CSV file, its row counts, bin counts.
CsvValues == {<<1, 1>>, <<2, 1>>}
CsvLens == 0..2
\* fit-effective-mass: the tau of the first row, the row counts, t1 and t2.
TauStarts == {0, 1}
FitLens == 0..3
FitTaus == 0..3
BinCounts == {1, 2}

VARIABLES
    args,                \* the parsed command line
    file,                \* the HMC output file
    wf_file,             \* the Wilson-flow output file
    csv_file,            \* the CSV file of the commands that read one
    sample,              \* histogram, bootstrap-error: the Sample column
    pc,                  \* "start", "trials", "output", "done", "aborted"
    channel,             \* loaded (numerator) channel
    denominator_channel, \* loaded denominator channel (ratio only)
    wf,                  \* loaded flow observables
    global_t,            \* loaded period
    tau,                 \* compute-effective-mass: the outer loop variable
    trials,              \* the parallel map: closure instance per index
    order,               \* compute-effective-mass: indices in the order their closures returned
    solver_calls,        \* <<series, tau>> pairs effective_mass was called with
    effmass_inner,       \* per tau processed: the success population
    solve_failures,      \* per tau processed: nfailures
    effmass_mean,
    effmass_error,
    results_g,           \* population emitted by the bootstrap-fits family
    out                  \* rows written to stdout

vars == <<args, file, wf_file, csv_file, sample, pc, channel, denominator_channel, wf, global_t,
          tau, trials, order, solver_calls, effmass_inner, solve_failures,
          effmass_mean, effmass_error, results_g, out>>

\* ------------------------------------------------------------- numbers
NaN == <<0, 0>>
Add(p, q) == <<p[1] * q[2] + q[1] * p[2], p[2] * q[2]>>
Sub(p, q) == <<p[1] * q[2] - q[1] * p[2], p[2] * q[2]>>
Mul(p, q) == <<p[1] * q[1], p[2] * q[2]>>
Div(p, q) == <<p[1] * q[2], p[2] * q[1]>>

RECURSIVE Sum(_)
Sum(xs) == IF xs = <<>> THEN <<0, 1>> ELSE Add(Head(xs), Sum(Tail(xs)))

RECURSIVE SumSq(_)
SumSq(xs) ==
    IF xs = <<>> THEN <<0, 1>> ELSE Add(Mul(Head(xs), Head(xs)), SumSq(Tail(xs)))

\* statistics::mean: sum / len (0/0 for an empty slice)
mean(xs) == Div(Sum(xs), <<Len(xs), 1>>)

\* statistics::standard_deviation(xs, true), kept as its square:
\* sum((x - mean)^2) / (n - 1) = (n*sum(x^2) - sum(x)^2) / (n*(n - 1))
standard_deviation(xs) ==
    Div(Sub(Mul(<<Len(xs), 1>>, SumSq(xs)), Mul(Sum(xs), Sum(xs))),
        <<Len(xs) * (Len(xs) - 1), 1>>)

Min(a, b) == IF a < b THEN a ELSE b

\* ------------------------------------------------------------- resampler
\* The contiguous blocks of [0, nconfs), the last one truncated.
Blocks(nconfs, binwidth) ==
    { [k \in 1..(Min((b + 1) * binwidth, nconfs) - b * binwidth) |-> b * binwidth + k - 1] :
        b \in 0..((nconfs + binwidth - 1) \div binwidth) - 1 }

RECURSIVE Extend(_, _, _)
Extend(s, nconfs, blocks) ==
    IF Len(s) >= nconfs THEN {SubSeq(s, 1, nconfs)}
    ELSE UNION {Extend(s \o b, nconfs, blocks) : b \in blocks}

\* bootstrap::get_samples: every draw it can return.
get_samples(nconfs, binwidth) == Extend(<<>>, nconfs, Blocks(nconfs, binwidth))

NoSamples == [owner |-> 0, idx |-> <<>>]

\* Series::get_subsample_mean_stderr_from_samples(samples).values: one value
\* per column, each the mean over the rows the draw selects.  A row index
\* outside the series panics.
InRange(samples, nconfs) == \A k \in 1..Len(samples.idx) : samples.idx[k] < nconfs
SubsampleValues(series, samples) ==
    [len |-> series.each_len, samples |-> samples]

\* ------------------------------------------------------------- series
load_channel_from_file_folded(f, name) ==
    [nconfs |-> f.nconfs[name], each_len |-> f.each_len]
load_global_t_from_file(f) == f.global_t
load_wf_observables_from_file(f) ==
    [t2_esym |-> [nconfs |-> f.nconfs, each_len |-> Len(f.t)],
     tc |-> [nconfs |-> f.nconfs, each_len |-> Len(f.t)],
     t |-> f.t]
thermalise(series, k) == [series EXCEPT !.nconfs = @ - k]
thermalise_wf(w, k) ==
    [w EXCEPT !.t2_esym = thermalise(@, k), !.tc = thermalise(@, k)]

\* ------------------------------------------------------------- solvers
\* spectroscopy::effective_mass(mu, global_t, tau, precision): reads mu[tau]
\* and mu[tau + 1] and searches the root of the cosh relation.  Whether the
\* search converges depends on the resampled data; the root it converges to
\* is a function of the subsample and of tau, for which MassOf stands.
MassOf(mu, t) == <<1 + t + mu.samples.idx[1], 1>>
effective_mass(mu, T, t) ==
    IF t + 1 >= mu.len THEN {[k |-> "panic", val |-> NaN]}
    ELSE {[k |-> "Err", val |-> NaN], [k |-> "Ok", val |-> MassOf(mu, t)]}

\* wilsonflow::calculate_w(values, t): W on the flow-time grid.  Whether the
\* resampled W crosses w_ref, and where, depends on the data.
calculate_w(values, t) ==
    {[len |-> Len(t), crosses |-> TRUE, at |-> v] : v \in W0Values}
        \cup {[len |-> Len(t), crosses |-> FALSE, at |-> 0]}

\* wilsonflow::calculate_w0(w, w_ref) -> f64 (parser.rs multiplies it and
\* collects it into Vec<f64>): with a crossing, the interpolated scale; with
\* none there is no failure variant to return, so either some f64 (NaN here)
\* comes back or the call panics.
calculate_w0(w, w_ref) ==
    IF w.crosses THEN {[k |-> "Val", val |-> <<w.at, 1>>]}
    ELSE {[k |-> "Val", val |-> NaN], [k |-> "panic", val |-> NaN]}

\* ------------------------------------------------------------- closures
\* for tau in t_min..(t_max + 1) { match effective_mass(..) { Err => return
\* None, Ok(val) => masses.push(val) } }: how the loop can end.
RECURSIVE WindowSkipErr(_, _, _, _, _, _)
WindowSkipErr(mu, T, lo, hi, masses, n) ==
    IF lo > hi THEN {[end |-> "ok", masses |-> masses, ncalls |-> n]}
    ELSE UNION {
        IF r.k = "Ok"
        THEN WindowSkipErr(mu, T, lo + 1, hi, Append(masses, r.val), n + 1)
        ELSE IF r.k = "Err" THEN WindowSkipErr(mu, T, lo + 1, hi, masses, n + 1)
        ELSE {[end |-> "panic", masses |-> masses, ncalls |-> n + 1]}
        : r \in effective_mass(mu, T, lo)}

RECURSIVE Window(_, _, _, _, _, _)
Window(mu, T, lo, hi, masses, n) ==
    IF lo > hi THEN {[end |-> "ok", masses |-> masses, ncalls |-> n]}
    ELSE UNION {
        IF r.k = "Ok" THEN Window(mu, T, lo + 1, hi, Append(masses, r.val), n + 1)
        ELSE {[end |-> IF r.k = "Err" THEN "err" ELSE "panic",
               masses |-> masses, ncalls |-> n + 1]}
        : r \in effective_mass(mu, T, lo)}

NoRes == [k |-> "none", val |-> NaN]
Idle == [st |-> "idle", samples |-> NoSamples, usedA |-> NoSamples,
         usedB |-> NoSamples, ncalls |-> 0, nok |-> 0, dcalls |-> 0, dok |-> 0,
         crossed |-> TRUE, res |-> NoRes]

FreshTrials(n) == [i \in 1..n |-> Idle]

\* What a closure leaves behind: the draw it generated, the draw each of its
\* two series was resampled with, its solver calls (made, converged) on the
\* first and on the second window, whether its W crossed w_ref, its value.
NoWindow == [end |-> "ok", masses |-> <<>>, ncalls |-> 0]
Returned(st, s, a, b, n, d, cr, res) ==
    [st |-> st, samples |-> s, usedA |-> a, usedB |-> b,
     ncalls |-> n.ncalls, nok |-> Len(n.masses),
     dcalls |-> d.ncalls, dok |-> Len(d.masses), crossed |-> cr, res |-> res]

\* compute_effective_mass_command, the closure of the parallel map.
EffectiveMassClosure(i) ==
    { Returned(IF r.k = "panic" THEN "panicked" ELSE "done",
               NoSamples, NoSamples, NoSamples,
               [end |-> r.k, masses |-> IF r.k = "Ok" THEN <<r.val>> ELSE <<>>,
                ncalls |-> 1], NoWindow, TRUE, r) :
        r \in UNION {effective_mass(mu, global_t, tau) :
                mu \in {SubsampleValues(channel, [owner |-> i, idx |-> s]) :
                            s \in get_samples(channel.nconfs, args.binwidth)}} }

\* bootstrap_fits_command, the closure of the parallel map.
FitsSamples(i) ==
    {[owner |-> i, idx |-> s] : s \in get_samples(channel.nconfs, args.binwidth)}
FitsClosure(i) ==
    UNION { { Returned(IF w.end = "panic" THEN "panicked" ELSE "done",
                       samples, samples, NoSamples, w, NoWindow, TRUE,
                       IF w.end = "ok" THEN [k |-> "Some", val |-> mean(w.masses)]
                       ELSE IF w.end = "err" THEN [k |-> "None", val |-> NaN]
                       ELSE [k |-> "panic", val |-> NaN]) :
                w \in Window(SubsampleValues(channel, samples), global_t,
                             args.effective_mass_t_min, args.effective_mass_t_max,
                             <<>>, 0) } :
            samples \in FitsSamples(i) }

\* bootstrap_fits_with_wf_command, the closure of the parallel map.
WfSamples(i) == FitsSamples(i)
WfFlowSamples(samples) == samples
WfChannelSamples(samples) == samples
WfClosure(i) ==
    UNION { UNION { UNION {
        IF w0.k = "panic"
        THEN {Returned("panicked", samples, NoSamples, WfFlowSamples(samples),
                       NoWindow, NoWindow, w.crosses,
                       [k |-> "panic", val |-> NaN])}
        ELSE { Returned(IF m.end = "panic" THEN "panicked" ELSE "done",
                        samples, WfChannelSamples(samples), WfFlowSamples(samples),
                        m, NoWindow, w.crosses,
                        IF m.end = "ok"
                        THEN [k |-> "Some", val |-> Mul(mean(m.masses), w0.val)]
                        ELSE IF m.end = "err" THEN [k |-> "None", val |-> NaN]
                        ELSE [k |-> "panic", val |-> NaN]) :
                 m \in Window(SubsampleValues(channel, WfChannelSamples(samples)),
                              global_t, args.effective_mass_t_min,
                              args.effective_mass_t_max, <<>>, 0) }
        : w0 \in calculate_w0(w, args.w_ref) }
        : w \in calculate_w(SubsampleValues(wf.t2_esym, WfFlowSamples(samples)), wf.t) }
        : samples \in WfSamples(i) }

\* bootstrap_fits_ratio_command, the closure of the parallel map.
RatioSamplesFromDenominator(i) ==
    {[owner |-> i, idx |-> s] :
        s \in get_samples(denominator_channel.nconfs, args.binwidth)}
RatioSamples(i) ==
    {[owner |-> i, idx |-> s] : s \in get_samples(channel.nconfs, args.binwidth)}
RatioNumeratorSamples(samples) == samples
RatioDenominatorReversed(samples) ==
    [samples EXCEPT !.idx = [k \in 1..Len(@) |-> @[Len(@) + 1 - k]]]
RatioDenominatorSamples(samples) == samples
RatioClosure(i) ==
    UNION { UNION {
        IF n.end # "ok"
        THEN {Returned(IF n.end = "panic" THEN "panicked" ELSE "done",
                       samples, RatioNumeratorSamples(samples), NoSamples,
                       n, NoWindow, TRUE,
                       IF n.end = "err" THEN [k |-> "None", val |-> NaN]
                       ELSE [k |-> "panic", val |-> NaN])}
        ELSE IF ~InRange(RatioDenominatorSamples(samples), denominator_channel.nconfs)
        THEN {Returned("panicked", samples, RatioNumeratorSamples(samples),
                       RatioDenominatorSamples(samples), n, NoWindow, TRUE,
                       [k |-> "panic", val |-> NaN])}
        ELSE { Returned(IF d.end = "panic" THEN "panicked" ELSE "done",
                        samples, RatioNumeratorSamples(samples),
                        RatioDenominatorSamples(samples), n, d, TRUE,
                        IF d.end = "ok"
                        THEN [k |-> "Some", val |-> Div(mean(n.masses), mean(d.masses))]
                        ELSE IF d.end = "err" THEN [k |-> "None", val |-> NaN]
                        ELSE [k |-> "panic", val |-> NaN]) :
                 d \in Window(SubsampleValues(denominator_channel,
                                              RatioDenominatorSamples(samples)),
                              global_t, args.denominator_effective_mass_t_min,
                              args.denominator_effective_mass_t_max, <<>>, 0) }
        : n \in Window(SubsampleValues(channel, RatioNumeratorSamples(samples)),
                       global_t, args.effective_mass_t_min,
                       args.effective_mass_t_max, <<>>, 0) }
        : samples \in RatioSamples(i) }

\* calculate_w0_command, the closure of the parallel map.
W0Samples(i) ==
    {[owner |-> i, idx |-> s] : s \in get_samples(wf.t2_esym.nconfs, args.binwidth)}
W0Closure(i) ==
    UNION { UNION {
        { Returned(IF w0.k = "panic" THEN "panicked" ELSE "done",
                   samples, NoSamples, samples, NoWindow, NoWindow, w.crosses, w0) :
            w0 \in calculate_w0(w, args.w_ref) }
        : w \in calculate_w(SubsampleValues(wf.t2_esym, samples), wf.t) }
        : samples \in W0Samples(i) }

\* ------------------------------------------------------------- collection
Results == [i \in 1..args.n_boot |-> trials[i].res]

\* for result in results { match result { Ok(val) => effmass_inner.push(val),
\*                                        Err(_) => nfailures += 1 } }
RECURSIVE CollectResultsLossy(_, _, _)
CollectResultsLossy(rs, inner, nfailures) ==
    IF rs = <<>> THEN [inner |-> inner, nfailures |-> nfailures]
    ELSE IF Head(rs).k = "Ok"
         THEN CollectResultsLossy(Tail(rs), Append(inner, Head(rs).val), nfailures)
         ELSE CollectResultsLossy(Tail(rs), inner, nfailures)

RECURSIVE CollectResults(_, _, _)
CollectResults(rs, inner, nfailures) ==
    IF rs = <<>> THEN [inner |-> inner, nfailures |-> nfailures]
    ELSE IF Head(rs).k = "Ok"
         THEN CollectResults(Tail(rs), Append(inner, Head(rs).val), nfailures)
         ELSE CollectResults(Tail(rs), inner, nfailures + 1)

\* for result in results { match result { None => {}, Some(val) =>
\*                                        results_g.push(val) } }
RECURSIVE CollectSome(_, _)
CollectSome(rs, acc) ==
    IF rs = <<>> THEN acc
    ELSE IF Head(rs).k = "Some" THEN CollectSome(Tail(rs), Append(acc, Head(rs).val))
         ELSE CollectSome(Tail(rs), acc)

\* calculate_w0_command collects the closures' f64 values as they are.
CollectValues(rs) == [i \in 1..Len(rs) |-> rs[i].val]

SampleRows(population) == [i \in 1..Len(population) |-> [sample |-> population[i]]]

SomeReturned == \E i \in 1..args.n_boot : trials[i].st = "done"
\* statistics::standard_error(xs), kept as its square:
\* standard_deviation(xs, true)^2 / len
standard_error(xs) == Div(standard_deviation(xs), <<Len(xs), 1>>)

\* statistics::weighted_mean(values, errors): weights 1 / error^2; the pair
\* (sum(w * v) / sum(w), 1 / sqrt(sum(w))), the second kept as its square.
Weights(errors) ==
    [k \in 1..Len(errors) |-> Div(<<1, 1>>, Mul(errors[k], errors[k]))]
weighted_mean(values, errors) ==
    LET w == Weights(errors)
        wv == [k \in 1..Len(values) |-> Mul(w[k], values[k])]
    IN <<Div(Sum(wv), Sum(w)), Div(<<1, 1>>, Sum(w))>>

\* f64::total_cmp(p, q) = Ordering::Less on the values the model holds:
\* -inf (<<n, 0>>, n < 0) below every number, +inf (<<n, 0>>, n > 0) above
\* every number, NaN (<<0, 0>>) above +inf, two NaN equal.
IsNaN(p) == p[2] = 0 /\ p[1] = 0
IsPosInf(p) == p[2] = 0 /\ p[1] > 0
IsNegInf(p) == p[2] = 0 /\ p[1] < 0
Less(p, q) ==
    IF IsNaN(p) THEN FALSE
    ELSE IF IsNaN(q) THEN TRUE
    ELSE IF IsPosInf(p) THEN FALSE
    ELSE IF IsPosInf(q) THEN TRUE
    ELSE IF IsNegInf(q) THEN FALSE
    ELSE IF IsNegInf(p) THEN TRUE
    ELSE p[1] * p[2] * q[2] * q[2] < q[1] * q[2] * p[2] * p[2]

\* statistics::bin(sorted, nbins): nbins bins of equal width over [min, max],
\* lower edge inclusive, upper exclusive, the last bin closed; the count of
\* values in each.
BinOf(x, lo, hi, nbins) ==
    IF ~Less(lo, hi) THEN nbins
    ELSE LET f == Div(Sub(x, lo), Sub(hi, lo)) IN
         Min(nbins, 1 + ((f[1] * nbins) \div f[2]))
bin(sorted, nbins) ==
    [b \in 1..nbins |->
        [bin |-> b,
         count |-> Cardinality({k \in 1..Len(sorted) :
                        BinOf(sorted[k], sorted[1], sorted[Len(sorted)], nbins) = b})]]

\* bootstrap_error_command, the closure of the parallel map.
BootstrapErrorSamples(i) ==
    {[owner |-> i, idx |-> s] : s \in get_samples(Len(sample), 1)}
BootstrapErrorClosure(i) ==
    { Returned("done", samples, samples, NoSamples, NoWindow, NoWindow, TRUE,
               [k |-> "Val",
                val |-> standard_error([k \in 1..Len(samples.idx) |->
                                            sample[samples.idx[k] + 1]])]) :
        samples \in BootstrapErrorSamples(i) }

AllReturned == \A i \in 1..args.n_boot : trials[i].st = "done"
SomePanicked == \E i \in 1..args.n_boot : trials[i].st = "panicked"

\* ------------------------------------------------------------- inputs
Args(cmd, n, bw, th, wth, lo, hi, dlo, dhi) ==
    [cmd |-> cmd, n_boot |-> n, binwidth |-> bw, thermalisation |-> th,
     wf_thermalisation |-> wth, w_ref |-> 1,
     effective_mass_t_min |-> lo, effective_mass_t_max |-> hi,
     denominator_effective_mass_t_min |-> dlo,
     denominator_effective_mass_t_max |-> dhi,
     t1 |-> 0, t2 |-> 0, nbins |-> 0]
CsvArgs(cmd, n, t1, t2, nbins) ==
    [Args(cmd, n, 0, 0, 0, 0, 0, 0, 0) EXCEPT !.t1 = t1, !.t2 = t2, !.nbins = nbins]
\* A CSV file: whether every record deserializes, and its records.
CsvFile(readable, rows) == [readable |-> readable, rows |-> rows]
NoCsvFile == CsvFile(FALSE, <<>>)
HmcFile(T, L, a, b) ==
    [global_t |-> T, each_len |-> L, nconfs |-> [num |-> a, den |-> b]]
WfFile(n, t) == [nconfs |-> n, t |-> t]
NoHmcFile == HmcFile(0, 0, 0, 0)
NoWfFile == WfFile(0, <<>>)
NoSeries == [nconfs |-> 0, each_len |-> 0]
NoWf == [t2_esym |-> NoSeries, tc |-> NoSeries, t |-> <<>>]

Start ==
    /\ pc = "start"
    /\ sample = <<>>
    /\ channel = NoSeries
    /\ denominator_channel = NoSeries
    /\ wf = NoWf
    /\ global_t = 0
    /\ tau = 0
    /\ trials = <<>>
    /\ order = <<>>
    /\ solver_calls = {}
    /\ effmass_inner = <<>>
    /\ solve_failures = <<>>
    /\ effmass_mean = <<>>
    /\ effmass_error = <<>>
    /\ results_g = <<>>
    /\ out = <<>>

InitEffectiveMass ==
    /\ \E n \in 0..MaxBoot, bw \in BinWidths, th \in Thermalisations,
          lo \in Taus, hi \in Taus, T \in GlobalTs, L \in EachLens, a \in ConfCounts :
        /\ th < a
        /\ args = Args("compute-effective-mass", n, bw, th, 0, lo, hi, 0, 0)
        /\ file = HmcFile(T, L, a, a)
    /\ wf_file = NoWfFile
    /\ csv_file = NoCsvFile
    /\ Start

InitFits ==
    /\ \E n \in 0..MaxBoot, bw \in BinWidths, th \in Thermalisations,
          lo \in Taus, hi \in Taus, T \in GlobalTs, L \in EachLens, a \in ConfCounts :
        /\ th < a
        /\ args = Args("bootstrap-fits", n, bw, th, 0, lo, hi, 0, 0)
        /\ file = HmcFile(T, L, a, a)
    /\ wf_file = NoWfFile
    /\ csv_file = NoCsvFile
    /\ Start

InitWf ==
    /\ \E n \in 0..MaxBoot, bw \in BinWidths, th \in Thermalisations,
          wth \in Thermalisations, lo \in Taus, hi \in Taus, T \in GlobalTs,
          L \in EachLens, a \in ConfCounts, b \in ConfCounts :
        /\ th < a
        /\ wth < b
        /\ args = Args("bootstrap-fits-with-wf", n, bw, th, wth, lo, hi, 0, 0)
        /\ file = HmcFile(T, L, a, a)
        /\ wf_file = WfFile(b, FlowGrid)
    /\ csv_file = NoCsvFile
    /\ Start

InitRatio ==
    /\ \E n \in 0..MaxBoot, bw \in BinWidths, th \in Thermalisations,
          lo \in Taus, hi \in Taus, dlo \in Taus, dhi \in Taus, T \in GlobalTs,
          L \in EachLens, a \in ConfCounts, b \in ConfCounts :
        /\ th < a
        /\ th < b
        /\ args = Args("bootstrap-fits-ratio", n, bw, th, 0, lo, hi, dlo, dhi)
        /\ file = HmcFile(T, L, a, b)
    /\ wf_file = NoWfFile
    /\ csv_file = NoCsvFile
    /\ Start

InitW0 ==
    /\ \E n \in 0..MaxBoot, bw \in BinWidths, wth \in Thermalisations,
          b \in ConfCounts :
        /\ wth < b
        /\ args = Args("calculate-w0", n, bw, 0, wth, 0, 0, 0, 0)
        /\ wf_file = WfFile(b, FlowGrid)
    /\ file = NoHmcFile
    /\ csv_file = NoCsvFile
    /\ Start

\* Rows as compute-effective-mass writes them: consecutive tau.
InitFitEffectiveMass ==
    /\ \E readable \in BOOLEAN, first \in TauStarts, len \in FitLens,
          t1 \in FitTaus, t2 \in FitTaus,
          mass \in [1..3 -> CsvValues], error \in [1..3 -> CsvValues] :
        /\ args = CsvArgs("fit-effective-mass", 0, t1, t2, 0)
        /\ csv_file = CsvFile(readable,
                [k \in 1..len |-> [tau |-> first + k - 1, mass |-> mass[k],
                                   error |-> error[k]]])
    /\ file = NoHmcFile
    /\ wf_file = NoWfFile
    /\ Start

InitHistogram ==
    /\ \E readable \in BOOLEAN, len \in CsvLens \ {0}, nbins \in BinCounts,
          v \in [1..2 -> CsvValues] :
        /\ args = CsvArgs("histogram", 0, 0, 0, nbins)
        /\ csv_file = CsvFile(readable, [k \in 1..len |-> [sample |-> v[k]]])
    /\ file = NoHmcFile
    /\ wf_file = NoWfFile
    /\ Start

InitBootstrapError ==
    /\ \E readable \in BOOLEAN, len \in CsvLens \ {0}, n \in 0..MaxBoot,
          v \in [1..2 -> CsvValues] :
        /\ args = CsvArgs("bootstrap-error", n, 0, 0, 0)
        /\ csv_file = CsvFile(readable, [k \in 1..len |-> [sample |-> v[k]]])
    /\ file = NoHmcFile
    /\ wf_file = NoWfFile
    /\ Start

InitGenerateCompletions ==
    /\ args = CsvArgs("generate-completions", 0, 0, 0, 0)
    /\ csv_file = NoCsvFile
    /\ file = NoHmcFile
    /\ wf_file = NoWfFile
    /\ Start

\* parser.rs 488-503: the nine arms of the dispatch.
Init ==
    \/ InitEffectiveMass
    \/ InitFitEffectiveMass
    \/ InitWf
    \/ InitFits
    \/ InitRatio
    \/ InitW0
    \/ InitHistogram
    \/ InitBootstrapError
    \/ InitGenerateCompletions

\* ------------------------------------------------------------- actions
CallsOf(series, lo, n) == {<<series, t>> : t \in lo..(lo + n - 1)}

\* parser.rs 244: assert_eq!(global_t, (channel.each_len - 1) * 2)
Folded(T, c) == T = (c.each_len - 1) * 2

\* parser.rs 237-245: load, thermalise, assert the folding invariant, enter
\* the loop over tau.
compute_effective_mass_setup ==
    /\ pc = "start"
    /\ args.cmd = "compute-effective-mass"
    /\ channel' = thermalise(load_channel_from_file_folded(file, "num"),
                             args.thermalisation)
    /\ global_t' = load_global_t_from_file(file)
    /\ IF ~Folded(global_t', channel')
       THEN /\ pc' = "aborted"
            /\ UNCHANGED <<tau, trials>>
       ELSE /\ tau' = 1
            /\ IF 1 <= args.effective_mass_t_max
               THEN pc' = "trials" /\ trials' = FreshTrials(args.n_boot)
               ELSE pc' = "output" /\ trials' = <<>>
    /\ UNCHANGED <<args, file, wf_file, csv_file, sample, denominator_channel, wf, order,
                   solver_calls, effmass_inner, solve_failures, effmass_mean,
                   effmass_error, results_g, out>>

\* parser.rs 248-254: one closure of the parallel map returns.
compute_effective_mass_trial(i) ==
    /\ pc = "trials"
    /\ args.cmd = "compute-effective-mass"
    /\ trials[i].st = "idle"
    /\ \E r \in EffectiveMassClosure(i) : trials' = [trials EXCEPT ![i] = r]
    /\ order' = Append(order, i)
    /\ solver_calls' = solver_calls \cup {<<"num", tau>>}
    /\ UNCHANGED <<args, file, wf_file, csv_file, sample, pc, channel, denominator_channel, wf,
                   global_t, tau, effmass_inner, solve_failures, effmass_mean,
                   effmass_error, results_g, out>>

\* parser.rs 255-266: collect() has joined every closure; tally and reduce.
compute_effective_mass_join ==
    /\ pc = "trials"
    /\ args.cmd = "compute-effective-mass"
    /\ AllReturned
    /\ LET c == CollectResults(Results, <<>>, 0) IN
        /\ effmass_inner' = Append(effmass_inner, c.inner)
        /\ solve_failures' = Append(solve_failures, c.nfailures)
        /\ effmass_mean' = Append(effmass_mean, mean(c.inner))
        /\ effmass_error' = Append(effmass_error, standard_deviation(c.inner))
    /\ pc' = "joined"
    /\ UNCHANGED <<args, file, wf_file, csv_file, sample, channel, denominator_channel, wf,
                   global_t, tau, trials, order, solver_calls, results_g, out>>

\* parser.rs 245, 267: the loop's back edge.
compute_effective_mass_next ==
    /\ pc = "joined"
    /\ tau' = tau + 1
    /\ order' = <<>>
    /\ IF tau + 1 <= args.effective_mass_t_max
       THEN pc' = "trials" /\ trials' = FreshTrials(args.n_boot)
       ELSE pc' = "output" /\ trials' = <<>>
    /\ UNCHANGED <<args, file, wf_file, csv_file, sample, channel, denominator_channel, wf,
                   global_t, solver_calls, effmass_inner, solve_failures,
                   effmass_mean, effmass_error, results_g, out>>

\* parser.rs 268-278: a row per tau of the window; tau - 1 underflows at 0.
EffectiveMassRow(t) ==
    [tau |-> t, mass |-> effmass_mean[t], error |-> effmass_error[t],
     failures |-> <<solve_failures[t] * 100, args.n_boot>>]
compute_effective_mass_output ==
    /\ pc = "output"
    /\ IF args.effective_mass_t_min <= args.effective_mass_t_max
          /\ args.effective_mass_t_min = 0
       THEN pc' = "aborted" /\ out' = out
       ELSE /\ pc' = "done"
            /\ out' = [k \in 1..(args.effective_mass_t_max
                                    - args.effective_mass_t_min + 1) |->
                          EffectiveMassRow(args.effective_mass_t_min + k - 1)]
    /\ UNCHANGED <<args, file, wf_file, csv_file, sample, channel, denominator_channel, wf,
                   global_t, tau, trials, order, solver_calls, effmass_inner,
                   solve_failures, effmass_mean, effmass_error, results_g>>

\* A panic inside a closure is resumed in the thread that called collect().
unwind ==
    /\ pc = "trials"
    /\ SomePanicked
    /\ pc' = "aborted"
    /\ UNCHANGED <<args, file, wf_file, csv_file, sample, channel, denominator_channel, wf,
                   global_t, tau, trials, order, solver_calls, effmass_inner,
                   solve_failures, effmass_mean, effmass_error, results_g, out>>

\* A closure of one of the sample-emitting commands returns.
Return(i, r) ==
    /\ trials' = [trials EXCEPT ![i] = r]
    /\ order' = order
    /\ solver_calls' = solver_calls
            \cup CallsOf("num", args.effective_mass_t_min, r.ncalls)
            \cup CallsOf("den", args.denominator_effective_mass_t_min, r.dcalls)
    /\ UNCHANGED <<args, file, wf_file, csv_file, sample, pc, channel, denominator_channel, wf,
                   global_t, tau, effmass_inner, solve_failures, effmass_mean,
                   effmass_error, results_g, out>>

\* The population is written, one row per value.
Emit(population) ==
    /\ results_g' = population
    /\ out' = SampleRows(population)
    /\ pc' = "done"
    /\ UNCHANGED <<args, file, wf_file, csv_file, sample, channel, denominator_channel, wf,
                   global_t, tau, trials, order, solver_calls, effmass_inner,
                   solve_failures, effmass_mean, effmass_error>>

\* parser.rs 331-334
bootstrap_fits_setup ==
    /\ pc = "start"
    /\ args.cmd = "bootstrap-fits"
    /\ channel' = thermalise(load_channel_from_file_folded(file, "num"),
                             args.thermalisation)
    /\ global_t' = load_global_t_from_file(file)
    /\ pc' = "trials"
    /\ trials' = FreshTrials(args.n_boot)
    /\ UNCHANGED <<args, file, wf_file, csv_file, sample, denominator_channel, wf, tau, order,
                   solver_calls, effmass_inner, solve_failures, effmass_mean,
                   effmass_error, results_g, out>>

\* parser.rs 337-351
bootstrap_fits_trial(i) ==
    /\ pc = "trials"
    /\ args.cmd = "bootstrap-fits"
    /\ trials[i].st = "idle"
    /\ \E r \in FitsClosure(i) : Return(i, r)

\* parser.rs 352-363
bootstrap_fits_join ==
    /\ pc = "trials"
    /\ args.cmd = "bootstrap-fits"
    /\ AllReturned
    /\ Emit(CollectSome(Results, <<>>))

NconfsUnchecked(c, w) == TRUE
\* parser.rs 286: assert_eq!(channel.nconfs, wf.tc.nconfs)
NconfsAgree(c, w) == c.nconfs = w.tc.nconfs

\* parser.rs 282-288
bootstrap_fits_with_wf_setup ==
    /\ pc = "start"
    /\ args.cmd = "bootstrap-fits-with-wf"
    /\ channel' = thermalise(load_channel_from_file_folded(file, "num"),
                             args.thermalisation)
    /\ wf' = thermalise_wf(load_wf_observables_from_file(wf_file),
                           args.wf_thermalisation)
    /\ IF ~NconfsAgree(channel', wf')
       THEN /\ pc' = "aborted"
            /\ UNCHANGED <<global_t, trials>>
       ELSE /\ global_t' = load_global_t_from_file(file)
            /\ pc' = "trials"
            /\ trials' = FreshTrials(args.n_boot)
    /\ UNCHANGED <<args, file, wf_file, csv_file, sample, denominator_channel, tau, order,
                   solver_calls, effmass_inner, solve_failures, effmass_mean,
                   effmass_error, results_g, out>>

\* parser.rs 291-316
bootstrap_fits_with_wf_trial(i) ==
    /\ pc = "trials"
    /\ args.cmd = "bootstrap-fits-with-wf"
    /\ trials[i].st = "idle"
    /\ \E r \in WfClosure(i) : Return(i, r)

\* parser.rs 317-328
bootstrap_fits_with_wf_join ==
    /\ pc = "trials"
    /\ args.cmd = "bootstrap-fits-with-wf"
    /\ AllReturned
    /\ Emit(CollectSome(Results, <<>>))

\* parser.rs 366-373
bootstrap_fits_ratio_setup ==
    /\ pc = "start"
    /\ args.cmd = "bootstrap-fits-ratio"
    /\ channel' = thermalise(load_channel_from_file_folded(file, "num"),
                             args.thermalisation)
    /\ denominator_channel' =
            thermalise(load_channel_from_file_folded(file, "den"),
                       args.thermalisation)
    /\ global_t' = load_global_t_from_file(file)
    /\ pc' = "trials"
    /\ trials' = FreshTrials(args.n_boot)
    /\ UNCHANGED <<args, file, wf_file, csv_file, sample, wf, tau, order, solver_calls,
                   effmass_inner, solve_failures, effmass_mean, effmass_error,
                   results_g, out>>

\* parser.rs 376-407
bootstrap_fits_ratio_trial(i) ==
    /\ pc = "trials"
    /\ args.cmd = "bootstrap-fits-ratio"
    /\ trials[i].st = "idle"
    /\ \E r \in RatioClosure(i) : Return(i, r)

\* parser.rs 408-419
bootstrap_fits_ratio_join ==
    /\ pc = "trials"
    /\ args.cmd = "bootstrap-fits-ratio"
    /\ AllReturned
    /\ Emit(CollectSome(Results, <<>>))

\* parser.rs 422-423
calculate_w0_setup ==
    /\ pc = "start"
    /\ args.cmd = "calculate-w0"
    /\ wf' = thermalise_wf(load_wf_observables_from_file(wf_file),
                           args.wf_thermalisation)
    /\ pc' = "trials"
    /\ trials' = FreshTrials(args.n_boot)
    /\ UNCHANGED <<args, file, wf_file, csv_file, sample, channel, denominator_channel, global_t,
                   tau, order, solver_calls, effmass_inner, solve_failures,
                   effmass_mean, effmass_error, results_g, out>>

\* parser.rs 426-439
calculate_w0_trial(i) ==
    /\ pc = "trials"
    /\ args.cmd = "calculate-w0"
    /\ trials[i].st = "idle"
    /\ \E r \in W0Closure(i) : Return(i, r)

\* parser.rs 440-445
calculate_w0_join ==
    /\ pc = "trials"
    /\ args.cmd = "calculate-w0"
    /\ AllReturned
    /\ Emit(CollectValues(Results))

\* rdr.deserialize() and result.unwrap() over the file: the column read.
Column(name) == [k \in 1..Len(csv_file.rows) |-> csv_file.rows[k][name]]

\* parser.rs 224-226: the slice offset..(offset + t2 - t1 + 1) of the rows.
\* offset is 0-based.  `offset + t2 - t1` below zero panics in a build with
\* overflow checks and wraps in one without; a wrapped end other than 0 lies
\* beyond the rows.  Slicing panics when the range starts after its end or
\* ends beyond the rows.  Yields the set of 1-based index ranges, or "panic".
FitIndex(taus, t1, t2) ==
    IF \A k \in 1..Len(taus) : taus[k] # t1 THEN {[k |-> "panic", lo |-> 0, hi |-> 0]}
    ELSE LET offset == (CHOOSE k \in 1..Len(taus) :
                            /\ taus[k] = t1
                            /\ \A j \in 1..(k - 1) : taus[j] # t1) - 1
             end == offset + t2 - t1 + 1
         IN IF offset + t2 < t1
            THEN {[k |-> "panic", lo |-> 0, hi |-> 0]}
                    \cup (IF end = 0 /\ offset = 0
                          THEN {[k |-> "slice", lo |-> 1, hi |-> 0]} ELSE {})
            ELSE IF offset > end \/ end > Len(taus)
            THEN {[k |-> "panic", lo |-> 0, hi |-> 0]}
            ELSE {[k |-> "slice", lo |-> offset + 1, hi |-> end]}

\* parser.rs 213-234
fit_effective_mass_command ==
    /\ pc = "start"
    /\ args.cmd = "fit-effective-mass"
    /\ IF ~csv_file.readable
       THEN pc' = "aborted" /\ out' = out
       ELSE \E index \in FitIndex(Column("tau"), args.t1, args.t2) :
            IF index.k = "panic"
            THEN pc' = "aborted" /\ out' = out
            ELSE LET fit == weighted_mean(
                                SubSeq(Column("mass"), index.lo, index.hi),
                                SubSeq(Column("error"), index.lo, index.hi))
                 IN /\ out' = <<[mass |-> fit[1], error |-> fit[2]]>>
                    /\ pc' = "done"
    /\ UNCHANGED <<args, file, wf_file, csv_file, sample, channel,
                   denominator_channel, wf, global_t, tau, trials, order,
                   solver_calls, effmass_inner, solve_failures, effmass_mean,
                   effmass_error, results_g>>

\* parser.rs 448-462
histogram_command ==
    /\ pc = "start"
    /\ args.cmd = "histogram"
    /\ IF ~csv_file.readable
       THEN pc' = "aborted" /\ UNCHANGED <<sample, out>>
       ELSE /\ sample' = SortSeq(Column("sample"), Less)
            /\ out' = bin(sample', args.nbins)
            /\ pc' = "done"
    /\ UNCHANGED <<args, file, wf_file, csv_file, channel,
                   denominator_channel, wf, global_t, tau, trials, order,
                   solver_calls, effmass_inner, solve_failures, effmass_mean,
                   effmass_error, results_g>>

\* parser.rs 465-470
bootstrap_error_setup ==
    /\ pc = "start"
    /\ args.cmd = "bootstrap-error"
    /\ IF ~csv_file.readable
       THEN pc' = "aborted" /\ UNCHANGED <<sample, trials>>
       ELSE /\ sample' = Column("sample")
            /\ pc' = "trials"
            /\ trials' = FreshTrials(args.n_boot)
    /\ UNCHANGED <<args, file, wf_file, csv_file, channel, denominator_channel,
                   wf, global_t, tau, order, solver_calls, effmass_inner,
                   solve_failures, effmass_mean, effmass_error, results_g, out>>

\* parser.rs 473-479
bootstrap_error_trial(i) ==
    /\ pc = "trials"
    /\ args.cmd = "bootstrap-error"
    /\ trials[i].st = "idle"
    /\ \E r \in BootstrapErrorClosure(i) : Return(i, r)

\* parser.rs 480-485
bootstrap_error_join ==
    /\ pc = "trials"
    /\ args.cmd = "bootstrap-error"
    /\ AllReturned
    /\ Emit(CollectValues(Results))

\* parser.rs 499-501
generate_completions ==
    /\ pc = "start"
    /\ args.cmd = "generate-completions"
    /\ out' = <<[completions |-> "reshotka"]>>
    /\ pc' = "done"
    /\ UNCHANGED <<args, file, wf_file, csv_file, sample, channel,
                   denominator_channel, wf, global_t, tau, trials, order,
                   solver_calls, effmass_inner, solve_failures, effmass_mean,
                   effmass_error, results_g>>

NextEffectiveMass ==
    \/ compute_effective_mass_setup
    \/ \E i \in DOMAIN trials : compute_effective_mass_trial(i)
    \/ compute_effective_mass_join
    \/ compute_effective_mass_next
    \/ compute_effective_mass_output
    \/ unwind

NextFits ==
    \/ bootstrap_fits_setup
    \/ \E i \in DOMAIN trials : bootstrap_fits_trial(i)
    \/ bootstrap_fits_join
    \/ bootstrap_fits_with_wf_setup
    \/ \E i \in DOMAIN trials : bootstrap_fits_with_wf_trial(i)
    \/ bootstrap_fits_with_wf_join
    \/ bootstrap_fits_ratio_setup
    \/ \E i \in DOMAIN trials : bootstrap_fits_ratio_trial(i)
    \/ bootstrap_fits_ratio_join
    \/ unwind

Next ==
    \/ compute_effective_mass_setup
    \/ \E i \in DOMAIN trials : compute_effective_mass_trial(i)
    \/ compute_effective_mass_join
    \/ compute_effective_mass_next
    \/ compute_effective_mass_output
    \/ bootstrap_fits_setup
    \/ \E i \in DOMAIN trials : bootstrap_fits_trial(i)
    \/ bootstrap_fits_join
    \/ bootstrap_fits_with_wf_setup
    \/ \E i \in DOMAIN trials : bootstrap_fits_with_wf_trial(i)
    \/ bootstrap_fits_with_wf_join
    \/ bootstrap_fits_ratio_setup
    \/ \E i \in DOMAIN trials : bootstrap_fits_ratio_trial(i)
    \/ bootstrap_fits_ratio_join
    \/ calculate_w0_setup
    \/ \E i \in DOMAIN trials : calculate_w0_trial(i)
    \/ calculate_w0_join
    \/ fit_effective_mass_command
    \/ histogram_command
    \/ bootstrap_error_setup
    \/ \E i \in DOMAIN trials : bootstrap_error_trial(i)
    \/ bootstrap_error_join
    \/ generate_completions
    \/ unwind

Spec == Init /\ [][Next]_vars
SpecEffectiveMass == InitEffectiveMass /\ [][NextEffectiveMass]_vars
SpecFits == (InitFits \/ InitWf \/ InitRatio) /\ [][NextFits]_vars

\* ------------------------------------------------------------- properties
BagOfSeq(xs) ==
    [v \in {xs[k] : k \in 1..Len(xs)} |-> Cardinality({k \in 1..Len(xs) : xs[k] = v})]
Ran(i) == trials[i].st # "idle"
IsRatio == args.cmd = "bootstrap-fits-ratio"
IsWf == args.cmd = "bootstrap-fits-with-wf"
IsEffectiveMass == args.cmd = "compute-effective-mass"
IsFits == args.cmd = "bootstrap-fits"
IsW0 == args.cmd = "calculate-w0"
IsEstimator == IsEffectiveMass \/ IsFits \/ IsWf \/ IsRatio \/ IsW0
TakesWindow == IsEffectiveMass \/ IsFits \/ IsWf \/ IsRatio
WindowSize(lo, hi) == IF hi >= lo THEN hi - lo + 1 ELSE 0
NumeratorSize == WindowSize(args.effective_mass_t_min, args.effective_mass_t_max)
DenominatorSize ==
    IF IsRatio THEN WindowSize(args.denominator_effective_mass_t_min,
                               args.denominator_effective_mass_t_max)
    ELSE 0
With(kinds) == {i \in DOMAIN trials : trials[i].res.k \in kinds}

\* C1: compute-effective-mass: for every tau processed, the success
\* population and the failure count add up to n_boot; at the join the
\* population has one value per Ok closure and the count one per Err closure.
PopulationPlusFailuresIsNBoot ==
    /\ \A k \in 1..Len(solve_failures) :
            Len(effmass_inner[k]) + solve_failures[k] = args.n_boot
    /\ pc = "joined" =>
        /\ Len(effmass_inner[tau]) = Cardinality(With({"Ok"}))
        /\ solve_failures[tau] = Cardinality(With({"Err"}))
        /\ Cardinality(With({"Ok"})) + Cardinality(With({"Err"})) = args.n_boot

PopulationPlusFailuresWitness ==
    /\ pc = "joined"
    /\ args.n_boot >= 2
    /\ solve_failures[tau] >= 1
    /\ Len(effmass_inner[tau]) >= 1

\* C2: a completed run reports the failure signal: every row of a
\* compute-effective-mass run carries the failure percentage of its tau, and a
\* completed run of any other estimator in which trials failed writes rows
\* that carry the percentage of failed trials.
FailedTrials ==
    {i \in DOMAIN trials : trials[i].res.k \in {"None", "Err"} \/ ~trials[i].crossed}
FailureSignalReported ==
    (IsEstimator /\ pc = "done") =>
        IF IsEffectiveMass
        THEN \A k \in DOMAIN out :
                out[k].failures = <<solve_failures[out[k].tau] * 100, args.n_boot>>
        ELSE FailedTrials # {} =>
                /\ out # <<>>
                /\ \A k \in DOMAIN out :
                    /\ "failures" \in DOMAIN out[k]
                    /\ out[k].failures = <<Cardinality(FailedTrials) * 100, args.n_boot>>

\* C3: in bootstrap-fits-with-wf and bootstrap-fits-ratio every closure
\* resamples both its series with the one draw it generated itself: same
\* indices, same order, never a draw of another closure.
JointTrialsShareOneDraw ==
    (IsWf \/ IsRatio) =>
        \A i \in DOMAIN trials : Ran(i) =>
            /\ trials[i].samples.owner = i
            /\ Len(trials[i].samples.idx) = channel.nconfs
            /\ trials[i].usedA \in {NoSamples, trials[i].samples}
            /\ trials[i].usedB \in {NoSamples, trials[i].samples}
            /\ trials[i].res.k = "Some" =>
                /\ trials[i].usedA = trials[i].samples
                /\ trials[i].usedB = trials[i].samples

JointTrialsShareOneDrawWitness ==
    /\ IsRatio
    /\ \E i \in DOMAIN trials :
        /\ trials[i].res.k = "Some"
        /\ trials[i].usedA = trials[i].samples
        /\ trials[i].usedB = trials[i].samples
        /\ Len(trials[i].samples.idx) = 2
        /\ trials[i].samples.idx[1] # trials[i].samples.idx[2]

\* C4: in the bootstrap-fits family a closure that returned yields a value
\* exactly when the solver converged at every tau of every requested window;
\* the emitted population has one value per such closure, at most n_boot.
TrialYieldsIffAllConverged ==
    (IsFits \/ IsWf \/ IsRatio) =>
        /\ \A i \in DOMAIN trials : trials[i].st = "done" =>
            /\ trials[i].res.k \in {"Some", "None"}
            /\ trials[i].res.k = "Some" <=>
                (trials[i].nok = NumeratorSize /\ trials[i].dok = DenominatorSize)
        /\ pc = "done" =>
            /\ Len(results_g) = Cardinality(With({"Some"}))
            /\ Len(results_g) <= args.n_boot
            /\ Len(out) = Len(results_g)

TrialYieldsIffAllConvergedWitness ==
    /\ pc = "done"
    /\ IsFits
    /\ NumeratorSize >= 2
    /\ With({"Some"}) # {}
    /\ \E i \in DOMAIN trials : trials[i].res.k = "None" /\ trials[i].nok >= 1

\* C5: in calculate-w0 and bootstrap-fits-with-wf a closure whose resampled
\* W never crosses w_ref returns an explicit failure: no value, no panic.
NoCrossingIsTrialFailure ==
    (IsWf \/ IsW0) =>
        \A i \in DOMAIN trials : (Ran(i) /\ ~trials[i].crossed) =>
            /\ trials[i].st = "done"
            /\ trials[i].res.k = "None"

\* C6: a window with a tau below 1 or above global_t/2 - 1 aborts the run at
\* setup: no closure is started and the solver is never called.
WindowOutside(lo, hi) ==
    \E t \in lo..hi : t < 1 \/ t > (file.global_t \div 2) - 1
WindowCheckedAtSetup ==
    (/\ TakesWindow
     /\ \/ WindowOutside(args.effective_mass_t_min, args.effective_mass_t_max)
        \/ /\ IsRatio
           /\ WindowOutside(args.denominator_effective_mass_t_min,
                            args.denominator_effective_mass_t_max))
    => /\ \A i \in DOMAIN trials : ~Ran(i)
       /\ solver_calls = {}

\* C7: the solver is only ever called with a channel and a period that
\* satisfy global_t = 2 * (each_len - 1).
FoldingInvariantBeforeUse ==
    solver_calls # {} =>
        /\ global_t = 2 * (channel.each_len - 1)
        /\ IsRatio => global_t = 2 * (denominator_channel.each_len - 1)

\* C8: bootstrap-fits-with-wf: once both series are thermalised, differing
\* configuration counts mean the run has aborted with no closure run and
\* nothing written; equal counts mean every closure draws that many indices.
NconfsComparedBeforeTrials ==
    (IsWf /\ pc # "start") =>
        IF channel.nconfs # wf.tc.nconfs
        THEN /\ pc = "aborted"
             /\ trials = <<>>
             /\ solver_calls = {}
             /\ results_g = <<>>
             /\ out = <<>>
        ELSE \A i \in DOMAIN trials : Ran(i) =>
                /\ Len(trials[i].samples.idx) = channel.nconfs
                /\ Len(trials[i].samples.idx) = wf.t2_esym.nconfs
                /\ InRange(trials[i].samples, wf.t2_esym.nconfs)

NconfsComparedBeforeTrialsWitness ==
    /\ IsWf
    /\ pc = "aborted"
    /\ channel.nconfs # wf.tc.nconfs
    /\ args.n_boot >= 1

\* C9: compute-effective-mass aggregates only after every closure has
\* returned, and the tally, the population, the mean and the error are what
\* they would be with the results taken in the order the closures returned;
\* while closures run, a returning closure fills its own slot only and
\* nothing is tallied for the current tau.
ByCompletion == [k \in 1..Len(order) |-> trials[order[k]].res]
AggregateIndependentOfOrder ==
    /\ (IsEffectiveMass /\ pc \in {"trials", "joined"}) =>
        /\ \A i \in DOMAIN trials : ~Ran(i) => trials[i] = Idle
        /\ {order[k] : k \in 1..Len(order)} = {i \in DOMAIN trials : Ran(i)}
        /\ Len(order) = Cardinality({i \in DOMAIN trials : Ran(i)})
        /\ Len(solve_failures) = tau - 1 + (IF pc = "joined" THEN 1 ELSE 0)
    /\ pc = "joined" =>
        /\ \A i \in 1..args.n_boot : trials[i].st = "done"
        /\ Len(order) = args.n_boot
        /\ {order[k] : k \in 1..Len(order)} = 1..args.n_boot
        /\ LET c == CollectResults(ByCompletion, <<>>, 0) IN
            /\ c.nfailures = solve_failures[tau]
            /\ Len(c.inner) = Len(effmass_inner[tau])
            /\ BagOfSeq(c.inner) = BagOfSeq(effmass_inner[tau])
            /\ mean(c.inner) = effmass_mean[tau]
            /\ standard_deviation(c.inner) = effmass_error[tau]

AggregateIndependentOfOrderWitness ==
    /\ pc = "joined"
    /\ Len(order) >= 2
    /\ order[1] > order[2]
    /\ trials[order[1]].res.k = "Ok"
    /\ trials[order[2]].res.k = "Err"

\* C10: bootstrap-fits-ratio never aborts at setup; every draw has the
\* numerator's nconfs indices, each a configuration of the numerator, and
\* each a configuration of the denominator whenever the denominator has at
\* least as many configurations.
RatioDrawIndicesValid ==
    IsRatio =>
        /\ pc = "aborted" => \E i \in DOMAIN trials : trials[i].st = "panicked"
        /\ pc # "start" => DOMAIN trials = 1..args.n_boot
        /\ \A i \in DOMAIN trials : Ran(i) =>
            /\ Len(trials[i].samples.idx) = channel.nconfs
            /\ InRange(trials[i].samples, channel.nconfs)
            /\ denominator_channel.nconfs >= channel.nconfs =>
                    InRange(trials[i].samples, denominator_channel.nconfs)

RatioDrawIndicesValidWitness ==
    /\ IsRatio
    /\ denominator_channel.nconfs < channel.nconfs
    /\ \E i \in DOMAIN trials :
        /\ Ran(i)
        /\ ~InRange(trials[i].samples, denominator_channel.nconfs)

====
